---- MODULE Spec2Model ----
(***************************************************************************)
(* Model of the ArUco demo programs:                                       *)
(*   - the interactive marker generator   (src/generator.cpp, 1-248)       *)
(*   - the capture tools: start-up, capture loop, exit handling and       *)
(*     terminal raw mode                                                   *)
(*       "basic"   src/generator.cpp 249-437                               *)
(*       "toggle"  src/main.cpp      1-263                                 *)
(*       "policy"  src/main.cpp      266-584                               *)
(*       "tunable" src/unnamed/part_000                                    *)
(*   - FpsStats::tickFps                                                   *)
(* Marker detection, rendering and image output belong to OpenCV and are   *)
(* represented by the values the programs pass to and receive from them.   *)
(***************************************************************************)
EXTENDS Integers, Sequences, FiniteSets, TLC

VARIABLES
    \* ---- generator: struct State and the locals of main ----
    dictIdx,        \* State::dictIdx
    markerId,       \* State::markerId
    markerSize,     \* State::markerSize
    borderBits,     \* State::borderBits
    defaultOut,     \* State::defaultOut ("" = empty)
    showHelp,       \* State::showHelp
    needRedraw,     \* main: bool needRedraw
    key,            \* main: int key (last value of waitKeyEx)
    gpc,            \* position in the for(;;) loop: "top", "key", "done"
    shown,          \* what the last redraw rendered (renderMarker's arguments)
    written,        \* the last file imwrite produced: its path and image
    presses,        \* number of keys read so far
    nextIds,        \* number of next-id hotkeys handled so far
    budget,         \* number of keys the user presses in this run
    shownHelp,      \* whether the help lines were drawn on the canvas last shown
    banner,         \* the "Saved: ..." text on the canvas last shown ("" = none)
    renders,        \* number of times the loop top rendered and showed the marker
    saveOutcome,    \* how the last imwrite ended: "none", "ok", "false", "throw"
    \* ---- capture tools ----
    tool,           \* which capture program runs
    cpc,            \* position in main
    term,           \* the terminal: ICANON, ECHO of c_lflag, O_NONBLOCK of stdin
    term0,          \* the terminal as it was when the program started
    orig_termios,   \* static struct termios orig_termios
    term_raw_enabled, \* static bool term_raw_enabled
    g_signal_exit,  \* volatile sig_atomic_t g_signal_exit
    handlers,       \* TRUE once signal(SIGINT/SIGTERM/SIGHUP, handleSignal) ran
    wkey,           \* main: int key = cv::waitKey(1)
    termByte,       \* byte read from stdin by the last exitRequested, or NoByte
    exitReq,        \* result of the last exitRequested call
    exitCause,      \* why the loop was left: "none", "key", "term", "signal", "readfail"
    exitCode,       \* value returned by main (NoCode while running)
    argc,           \* policy tool: argc (1 = no argument, 2 = one argument)
    argv1,          \* policy tool: argv[1]
    cams,           \* the device indices on which open succeeds in this run
    requestedIndex, \* policy tool: int requestedIndex
    opens,          \* the device indices open was called on, in order
    camIdx,         \* the device index cap holds open, or NoIndex
    listed,         \* the device indices listCameras printed
    diag,           \* what was written to std::cerr: "none", "argument", "open"
    rawEntries,     \* number of times the terminal was put into raw mode
    rawCalls,       \* the calls of enableRawTerminal / disableRawTerminal so far
    onlyDetect6x6_50, \* toggle tool: bool onlyDetect6x6_50
    useAllDicts,    \* tunable tool: bool useAllDicts
    detectEveryN,   \* tunable tool: int detectEveryN
    frameIndex,     \* tunable tool: int frameIndex
    reads,          \* number of cap.read calls
    detected,       \* number of frames that went through the detection stage
    shows,          \* number of cv::imshow calls
    dictsLeft,      \* detectMarkers calls still to make for the current frame
    sigDetects,     \* detectMarkers calls started while g_signal_exit was 1
    detIds,         \* policy tool: ids returned by detectMarkers for this frame
    correctIds,     \* policy tool: std::vector<int> correctIds
    correctCorners, \* policy tool: correctCorners (index of the detection)
    correctLabels,  \* policy tool: correctLabels
    wrongIds,       \* policy tool: wrongIds
    wrongCorners,   \* policy tool: wrongCorners (index of the detection)
    wrongLabels,    \* policy tool: wrongLabels
    detCount,       \* the "det %d" value of the status line last drawn
    detectScale,    \* tunable tool: double detectScale, in hundredths
    doDetect,       \* tunable tool: bool doDetect of the current frame
    allIds,         \* tunable tool: std::vector<int> allIds of the current frame
    allCorners,     \* tunable tool: allCorners (frame and dictionary of the find)
    labels,         \* tunable tool: labels
    lastIds,        \* tunable tool: lastIds
    lastCorners,    \* tunable tool: lastCorners
    lastLabels,     \* tunable tool: lastLabels
    lastRun,        \* what the most recent frame that ran detection found
    kbd,            \* the key codes the user presses at the window in this run
    frameBudget,    \* good frames the camera delivers in this run
    visibleDicts,   \* indices of the dictionaries that have a marker in view
    \* ---- FpsStats ----
    now,            \* steady clock, whole milliseconds
    fpsStart,       \* FpsStats::fpsStart
    avgFpsNum,      \* FpsStats::avgFps = avgFpsNum / 10^rollovers
    fps1sec,        \* FpsStats::fps1sec
    rollovers,      \* number of times tickFps folded fps1sec into avgFps
    ticks           \* number of tickFps calls

genVars == <<dictIdx, markerId, markerSize, borderBits, defaultOut, showHelp,
             needRedraw, key, gpc, shown, written, presses, nextIds, budget,
             shownHelp, banner, renders, saveOutcome>>
capVars == <<tool, cpc, term, term0, orig_termios, term_raw_enabled,
             g_signal_exit, handlers, wkey, termByte, exitReq, exitCause, exitCode,
             argc, argv1, cams, requestedIndex, opens, camIdx, listed, diag,
             rawEntries, rawCalls, onlyDetect6x6_50, useAllDicts, detectEveryN, frameIndex,
             reads, detected, shows, dictsLeft, sigDetects, detIds,
             correctIds, correctCorners, correctLabels,
             wrongIds, wrongCorners, wrongLabels, detCount,
             detectScale, doDetect, allIds, allCorners, labels,
             lastIds, lastCorners, lastLabels, lastRun,
             kbd, frameBudget, visibleDicts>>
fpsVars == <<now, fpsStart, avgFpsNum, fps1sec, rollovers, ticks>>
vars == <<genVars, capVars, fpsVars>>

\* ------------------------------------------------------------------ bounds
\* keys pressed in one explored run of the generator
MaxPresses == 2
\* keys pressed in the "press next-id 50 times, then save" scenario
MaxScenarioPresses == 52
\* tickFps calls in one explored run
MaxTicks == 5
\* the clock stops advancing at this many milliseconds
MaxNow == 4000
\* good frames the camera delivers in a run before the stream ends
MaxFrames == 2
\* markers detectMarkers returns for one frame
MaxDet == 2
\* calls of the terminal helpers made when they are exercised on their own
MaxRawCalls == 4
\* frames the camera delivers to the tunable tool
MaxTunableFrames == 4

\* ------------------------------------------------------------ C++ helpers
Min(a, b) == IF a < b THEN a ELSE b
Max(a, b) == IF a > b THEN a ELSE b
\* C++ integer remainder: truncation toward zero, the sign of the dividend
CRem(a, b) == IF a >= 0 THEN a % b ELSE 0 - ((0 - a) % b)
\* k & 0xFF for k >= 0
Low8(k) == k % 256

Digit(d) ==
    CASE d = 0 -> "0" [] d = 1 -> "1" [] d = 2 -> "2" [] d = 3 -> "3"
      [] d = 4 -> "4" [] d = 5 -> "5" [] d = 6 -> "6" [] d = 7 -> "7"
      [] d = 8 -> "8" [] d = 9 -> "9"
RECURSIVE DecStr(_)
DecStr(n) == IF n < 10 THEN Digit(n) ELSE DecStr(n \div 10) \o Digit(n % 10)
\* printf's %d
FormatD(n) == IF n < 0 THEN "-" \o DecStr(0 - n) ELSE DecStr(n)

\* ================================================================ generator
\* kDicts with the number of markers of each predefined dictionary
\* (dict->bytesList.rows, read by currentDictSize)
kDicts == <<
    [name |-> "DICT_4X4_50",         rows |-> 50],
    [name |-> "DICT_4X4_100",        rows |-> 100],
    [name |-> "DICT_4X4_250",        rows |-> 250],
    [name |-> "DICT_4X4_1000",       rows |-> 1000],
    [name |-> "DICT_5X5_50",         rows |-> 50],
    [name |-> "DICT_5X5_100",        rows |-> 100],
    [name |-> "DICT_5X5_250",        rows |-> 250],
    [name |-> "DICT_5X5_1000",       rows |-> 1000],
    [name |-> "DICT_6X6_50",         rows |-> 50],
    [name |-> "DICT_6X6_100",        rows |-> 100],
    [name |-> "DICT_6X6_250",        rows |-> 250],
    [name |-> "DICT_6X6_1000",       rows |-> 1000],
    [name |-> "DICT_7X7_50",         rows |-> 50],
    [name |-> "DICT_7X7_100",        rows |-> 100],
    [name |-> "DICT_7X7_250",        rows |-> 250],
    [name |-> "DICT_7X7_1000",       rows |-> 1000],
    [name |-> "DICT_ARUCO_ORIGINAL", rows |-> 1024] >>
kDictsSize == Len(kDicts)

\* the index currentDictionary, overlayInfo and autoFileName clamp to
clampedIdx(idx) == Max(0, Min(kDictsSize - 1, idx))
dictName(idx) == kDicts[clampedIdx(idx) + 1].name
currentDictSize(idx) == kDicts[clampedIdx(idx) + 1].rows

\* the arguments renderMarker passes to aruco::drawMarker
renderMarker(idx, id, ms, bb) ==
    LET maxId == Max(1, currentDictSize(idx)) - 1 IN
    [dict |-> dictName(idx),
     id   |-> Max(0, Min(maxId, id)),
     bb   |-> Max(0, Min(7, bb)),
     ms   |-> Max(50, ms)]

autoFileName(idx, id, ms, bb) ==
    "marker_" \o dictName(idx) \o "_id" \o FormatD(id) \o "_"
        \o FormatD(Max(50, ms)) \o "px_bb" \o FormatD(Max(0, Min(7, bb))) \o ".png"

KEY_LEFT_1 == 65361
KEY_LEFT_2 == 2424832
KEY_RIGHT_1 == 65363
KEY_RIGHT_2 == 2555904
KEY_UP_1 == 65362
KEY_UP_2 == 2490368
KEY_DOWN_1 == 65364
KEY_DOWN_2 == 2621440

\* key codes waitKeyEx can deliver: no key (-1), the hotkey characters, an
\* unmapped character ('a'), the arrow codes of both platforms, and an extended
\* code whose low byte is ESC (65307 = 0xFF1B)
Keys == {-1, 27, 113, 81, 104, 100, 68, 44, 46, 91, 93, 114, 115, 97,
         KEY_LEFT_1, KEY_LEFT_2, KEY_RIGHT_1, KEY_RIGHT_2,
         KEY_UP_1, KEY_UP_2, KEY_DOWN_1, KEY_DOWN_2, 65307}

\* values of rand()
RandValues == {0, 49, 1023, 32767}

\* values the command line can give to --d, --id, --ms, --bb, --o
CliDict == {-20, 0, 8, 16, 20}
CliId == {-5, 0, 100}
CliSize == {10, 300, 5000}
CliBorder == {-3, 1, 20}
CliOut == {"", "out.png"}

\* a variant of the key classification that masks the code to 8 bits first
HotkeyMasked(k) ==
    LET ch == IF k >= 0 THEN Low8(k) ELSE -1 IN
    IF k < 0 THEN "none"
    ELSE IF ch = 27 \/ ch = 113 \/ ch = 81 THEN "quit"
    ELSE IF ch = 104 \/ ch = 72 THEN "help"
    ELSE IF ch = 100 THEN "prevDict"
    ELSE IF ch = 68 THEN "nextDict"
    ELSE IF k = KEY_LEFT_1 \/ k = KEY_LEFT_2 \/ ch = 44 THEN "prevId"
    ELSE IF k = KEY_RIGHT_1 \/ k = KEY_RIGHT_2 \/ ch = 46 THEN "nextId"
    ELSE IF k = KEY_UP_1 \/ k = KEY_UP_2 THEN "sizeUp"
    ELSE IF k = KEY_DOWN_1 \/ k = KEY_DOWN_2 THEN "sizeDown"
    ELSE IF ch = 91 THEN "borderDown"
    ELSE IF ch = 93 THEN "borderUp"
    ELSE IF ch = 114 \/ ch = 82 THEN "random"
    ELSE IF ch = 115 \/ ch = 83 THEN "save"
    ELSE "other"

\* main's chain of tests on key and ch, in the order of the code
Hotkey(k) ==
    LET isCharKey == k >= 0 /\ k <= 255
        ch == IF isCharKey THEN k ELSE -1 IN
    IF k < 0 THEN "none"
    ELSE IF ch = 27 \/ ch = 113 \/ ch = 81 THEN "quit"
    ELSE IF ch = 104 \/ ch = 72 THEN "help"
    ELSE IF ch = 100 THEN "prevDict"
    ELSE IF ch = 68 THEN "nextDict"
    ELSE IF k = KEY_LEFT_1 \/ k = KEY_LEFT_2 \/ ch = 44 THEN "prevId"
    ELSE IF k = KEY_RIGHT_1 \/ k = KEY_RIGHT_2 \/ ch = 46 THEN "nextId"
    ELSE IF k = KEY_UP_1 \/ k = KEY_UP_2 THEN "sizeUp"
    ELSE IF k = KEY_DOWN_1 \/ k = KEY_DOWN_2 THEN "sizeDown"
    ELSE IF ch = 91 THEN "borderDown"
    ELSE IF ch = 93 THEN "borderUp"
    ELSE IF ch = 114 \/ ch = 82 THEN "random"
    ELSE IF ch = 115 \/ ch = 83 THEN "save"
    ELSE "other"

NoImg == [dict |-> "", id |-> -1, bb |-> -1, ms |-> -1]

\* int key = waitKeyEx(0), classified as hotkey h
ReadKey(h) ==
    /\ gpc = "key"
    /\ presses < budget
    /\ \E k \in Keys : Hotkey(k) = h /\ key' = k
    /\ presses' = presses + 1
    /\ UNCHANGED <<budget, capVars, fpsVars>>

\* top of the loop body: if (needRedraw) { render, imshow, needRedraw = false }
LoopTop ==
    /\ gpc = "top"
    /\ gpc' = "key"
    /\ IF needRedraw
         THEN /\ shown' = renderMarker(dictIdx, markerId, markerSize, borderBits)
              /\ shownHelp' = showHelp
              /\ banner' = ""
              /\ renders' = renders + 1
              /\ needRedraw' = FALSE
         ELSE UNCHANGED <<shown, shownHelp, banner, renders, needRedraw>>
    /\ UNCHANGED <<dictIdx, markerId, markerSize, borderBits, defaultOut, showHelp,
                   key, written, presses, nextIds, budget, saveOutcome,
                   capVars, fpsVars>>

\* if (key < 0) continue;
NoKey ==
    /\ ReadKey("none")
    /\ gpc' = "top"
    /\ UNCHANGED <<shownHelp, banner, renders, saveOutcome>>
    /\ UNCHANGED <<dictIdx, markerId, markerSize, borderBits, defaultOut, showHelp,
                   needRedraw, shown, written, nextIds>>

\* if (ch == 27 || ch == 'q' || ch == 'Q') break;
Quit ==
    /\ ReadKey("quit")
    /\ gpc' = "done"
    /\ UNCHANGED <<shownHelp, banner, renders, saveOutcome>>
    /\ UNCHANGED <<dictIdx, markerId, markerSize, borderBits, defaultOut, showHelp,
                   needRedraw, shown, written, nextIds>>

ToggleHelp ==
    /\ ReadKey("help")
    /\ showHelp' = ~showHelp
    /\ needRedraw' = TRUE
    /\ gpc' = "top"
    /\ UNCHANGED <<shownHelp, banner, renders, saveOutcome>>
    /\ UNCHANGED <<dictIdx, markerId, markerSize, borderBits, defaultOut,
                   shown, written, nextIds>>

PrevDict ==
    /\ ReadKey("prevDict")
    /\ LET idx == CRem(dictIdx - 1 + kDictsSize, kDictsSize) IN
         /\ dictIdx' = idx
         /\ markerId' = Min(markerId, currentDictSize(idx) - 1)
    /\ needRedraw' = TRUE
    /\ gpc' = "top"
    /\ UNCHANGED <<shownHelp, banner, renders, saveOutcome>>
    /\ UNCHANGED <<markerSize, borderBits, defaultOut, showHelp, shown, written, nextIds>>

NextDict ==
    /\ ReadKey("nextDict")
    /\ LET idx == CRem(dictIdx + 1, kDictsSize) IN
         /\ dictIdx' = idx
         /\ markerId' = Min(markerId, currentDictSize(idx) - 1)
    /\ needRedraw' = TRUE
    /\ gpc' = "top"
    /\ UNCHANGED <<shownHelp, banner, renders, saveOutcome>>
    /\ UNCHANGED <<markerSize, borderBits, defaultOut, showHelp, shown, written, nextIds>>

PrevId ==
    /\ ReadKey("prevId")
    /\ markerId' = IF markerId - 1 < 0 THEN currentDictSize(dictIdx) - 1
                   ELSE markerId - 1
    /\ needRedraw' = TRUE
    /\ gpc' = "top"
    /\ UNCHANGED <<shownHelp, banner, renders, saveOutcome>>
    /\ UNCHANGED <<dictIdx, markerSize, borderBits, defaultOut, showHelp,
                   shown, written, nextIds>>

\* a variant of the next-id hotkey that increments without wrapping
NextIdNoWrap ==
    /\ ReadKey("nextId")
    /\ markerId' = markerId + 1
    /\ nextIds' = nextIds + 1
    /\ needRedraw' = TRUE
    /\ gpc' = "top"
    /\ UNCHANGED <<shownHelp, banner, renders, saveOutcome>>
    /\ UNCHANGED <<dictIdx, markerSize, borderBits, defaultOut, showHelp,
                   shown, written>>

NextId ==
    /\ ReadKey("nextId")
    /\ markerId' = CRem(markerId + 1, Max(1, currentDictSize(dictIdx)))
    /\ nextIds' = nextIds + 1
    /\ needRedraw' = TRUE
    /\ gpc' = "top"
    /\ UNCHANGED <<shownHelp, banner, renders, saveOutcome>>
    /\ UNCHANGED <<dictIdx, markerSize, borderBits, defaultOut, showHelp,
                   shown, written>>

SizeUp ==
    /\ ReadKey("sizeUp")
    /\ markerSize' = Min(4096, markerSize + 50)
    /\ needRedraw' = TRUE
    /\ gpc' = "top"
    /\ UNCHANGED <<shownHelp, banner, renders, saveOutcome>>
    /\ UNCHANGED <<dictIdx, markerId, borderBits, defaultOut, showHelp,
                   shown, written, nextIds>>

SizeDown ==
    /\ ReadKey("sizeDown")
    /\ markerSize' = Max(50, markerSize - 50)
    /\ needRedraw' = TRUE
    /\ gpc' = "top"
    /\ UNCHANGED <<shownHelp, banner, renders, saveOutcome>>
    /\ UNCHANGED <<dictIdx, markerId, borderBits, defaultOut, showHelp,
                   shown, written, nextIds>>

BorderDown ==
    /\ ReadKey("borderDown")
    /\ borderBits' = Max(0, borderBits - 1)
    /\ needRedraw' = TRUE
    /\ gpc' = "top"
    /\ UNCHANGED <<shownHelp, banner, renders, saveOutcome>>
    /\ UNCHANGED <<dictIdx, markerId, markerSize, defaultOut, showHelp,
                   shown, written, nextIds>>

\* a variant of the border-up hotkey that does not request a redraw
BorderUpNoRedraw ==
    /\ ReadKey("borderUp")
    /\ borderBits' = Min(7, borderBits + 1)
    /\ gpc' = "top"
    /\ UNCHANGED <<shownHelp, banner, renders, saveOutcome>>
    /\ UNCHANGED <<dictIdx, markerId, markerSize, defaultOut, showHelp,
                   needRedraw, shown, written, nextIds>>

BorderUp ==
    /\ ReadKey("borderUp")
    /\ borderBits' = Min(7, borderBits + 1)
    /\ needRedraw' = TRUE
    /\ gpc' = "top"
    /\ UNCHANGED <<shownHelp, banner, renders, saveOutcome>>
    /\ UNCHANGED <<dictIdx, markerId, markerSize, defaultOut, showHelp,
                   shown, written, nextIds>>

RandomId ==
    /\ ReadKey("random")
    /\ \E r \in RandValues :
         markerId' = r % Max(1, currentDictSize(dictIdx))
    /\ needRedraw' = TRUE
    /\ gpc' = "top"
    /\ UNCHANGED <<shownHelp, banner, renders, saveOutcome>>
    /\ UNCHANGED <<dictIdx, markerSize, borderBits, defaultOut, showHelp,
                   shown, written, nextIds>>

\* the outcomes of imwrite(path, img): the file is written; it returns false
\* (nothing written); it throws cv::Exception
ImwriteOutcomes == {"ok", "false", "throw"}

\* a variant of the save hotkey in which the exception of a failed write is
\* not caught and ends the program
SaveUncaught ==
    /\ ReadKey("save")
    /\ LET img == renderMarker(dictIdx, markerId, markerSize, borderBits)
           path == IF defaultOut = ""
                     THEN autoFileName(dictIdx, markerId, markerSize, borderBits)
                     ELSE defaultOut
       IN \E o \in ImwriteOutcomes :
            /\ saveOutcome' = o
            /\ written' = IF o = "ok" THEN [path |-> path, img |-> img] ELSE written
            /\ IF o = "throw"
                 THEN /\ gpc' = "done"
                      /\ UNCHANGED <<shown, shownHelp, banner>>
                 ELSE /\ gpc' = "top"
                      /\ shown' = img
                      /\ shownHelp' = showHelp
                      /\ banner' = "Saved: " \o path
    /\ UNCHANGED <<dictIdx, markerId, markerSize, borderBits, defaultOut, showHelp,
                   needRedraw, nextIds, renders>>

\* 's': render, choose the path, try { imwrite; show the canvas with the
\* "Saved: <path>" text } catch (const std::exception&) {}; continue.
\* No redraw is requested.
Save ==
    /\ ReadKey("save")
    /\ LET img == renderMarker(dictIdx, markerId, markerSize, borderBits)
           path == IF defaultOut = ""
                     THEN autoFileName(dictIdx, markerId, markerSize, borderBits)
                     ELSE defaultOut
       IN \E o \in ImwriteOutcomes :
            /\ saveOutcome' = o
            /\ written' = IF o = "ok" THEN [path |-> path, img |-> img] ELSE written
            /\ IF o = "throw"
                 THEN UNCHANGED <<shown, shownHelp, banner>>
                 ELSE /\ shown' = img
                      /\ shownHelp' = showHelp
                      /\ banner' = "Saved: " \o path
    /\ gpc' = "top"
    /\ UNCHANGED <<dictIdx, markerId, markerSize, borderBits, defaultOut, showHelp,
                   needRedraw, nextIds, renders>>

\* any other key: ignore
OtherKey ==
    /\ ReadKey("other")
    /\ gpc' = "top"
    /\ UNCHANGED <<shownHelp, banner, renders, saveOutcome>>
    /\ UNCHANGED <<dictIdx, markerId, markerSize, borderBits, defaultOut, showHelp,
                   needRedraw, shown, written, nextIds>>

\* ============================================================ capture tools
Tools == {"basic", "toggle", "policy", "tunable"}
NoByte == -1
NoCode == -99

\* key codes cv::waitKey can deliver: no key (-1), exit characters, other
\* characters, arrow codes, and extended codes whose low byte is an exit
\* character (65361 = 0xFF51 'Q', 65307 = 0xFF1B and 1048603 = 0x10001B ESC)
WindowKeys == {-1, 27, 113, 88, 3, 97, 54, 65361, 65363, 2424832, 65307, 1048603}
\* the codes cv::waitKey delivers to the tunable tool: no key, 'a', 'A', 'z',
\* 'Z', '1'..'4', 'z' with a modifier bit above the low byte, 'q'
TunableKeys == {-1, 97, 65, 122, 90, 49, 50, 51, 52, 1048698, 113}
\* bytes read(STDIN_FILENO, &c, 1) can deliver
StdinBytes == {3, 24, 97, 113, 200}

\* the cases of isExitKey's switch
ExitCases == {27, 113, 81, 120, 88, 99, 67, 3, 4, 17, 24}

\* isExitKey as written in the basic, toggle and tunable tools: k &= 0xFF
isExitKeyMasked(t, k) ==
    IF k < 0 THEN FALSE ELSE Low8(k) \in ExitCases

\* isExitKey of tool t
isExitKey(t, k) ==
    IF t = "policy"
      THEN (IF k < 0 THEN FALSE
            ELSE IF k > 255 THEN FALSE
            ELSE k \in ExitCases)
      ELSE (IF k < 0 THEN FALSE ELSE Low8(k) \in ExitCases)

enableRawTerminal ==
    IF term_raw_enabled
      THEN UNCHANGED <<orig_termios, term, term_raw_enabled>>
      ELSE /\ orig_termios' = [icanon |-> term.icanon, echo |-> term.echo]
           /\ term' = [icanon |-> FALSE, echo |-> FALSE, nonblock |-> TRUE]
           /\ term_raw_enabled' = TRUE

\* a variant of disableRawTerminal that forgets to put the settings back
disableRawTerminalSkip ==
    /\ term_raw_enabled' = FALSE
    /\ UNCHANGED <<orig_termios, term>>

disableRawTerminal ==
    IF ~term_raw_enabled
      THEN UNCHANGED <<orig_termios, term, term_raw_enabled>>
      ELSE /\ term' = [icanon |-> orig_termios.icanon, echo |-> orig_termios.echo,
                       nonblock |-> FALSE]
           /\ term_raw_enabled' = FALSE
           /\ UNCHANGED orig_termios

\* ---- command line of the policy tool: main(argc, argv) ----
\* first arguments tried; "" with argc = 1 stands for "no argument"
ArgStrings == {"--list", "0", "1", "01", "2", "abc", "1x", "", "99999999999"}
\* device indices on which cv::VideoCapture::open can succeed in a run
CameraIndices == {0, 1}
NoIndex == -1
INT_MAX == 2147483647

\* std::isdigit on one character
isdigit(c) == c \in {"0", "1", "2", "3", "4", "5", "6", "7", "8", "9"}

\* value of a decimal digit character
DigitValue(c) ==
    CASE c = "0" -> 0 [] c = "1" -> 1 [] c = "2" -> 2 [] c = "3" -> 3 [] c = "4" -> 4
      [] c = "5" -> 5 [] c = "6" -> 6 [] c = "7" -> 7 [] c = "8" -> 8 [] c = "9" -> 9

\* bool numeric = !arg.empty() && std::all_of(arg.begin(), arg.end(), isdigit)
numeric(arg) ==
    /\ arg # ""
    /\ \A i \in 1..Len(arg) : isdigit(SubSeq(arg, i, i))

\* std::stoi on an all-digit string, reading the first n characters:
\* the value, or "out_of_range" (thrown as std::out_of_range) once the value
\* no longer fits an int
RECURSIVE stoiPrefix(_, _)
stoiPrefix(arg, n) ==
    IF n = 0 THEN [throws |-> FALSE, value |-> 0]
    ELSE LET r == stoiPrefix(arg, n - 1)
             d == DigitValue(SubSeq(arg, n, n))
         IN IF r.throws \/ r.value > (INT_MAX - d) \div 10
              THEN [throws |-> TRUE, value |-> 0]
              ELSE [throws |-> FALSE, value |-> 10 * r.value + d]

stoi(arg) == stoiPrefix(arg, Len(arg))

\* a variant of the device order that also tries index 2
kOpenIndicesWide == <<0, 1, 2>>

\* int indices[2] = {0,1}
kOpenIndices == <<0, 1>>

\* the indices of order on which open is called when they are tried in turn
\* until one opens
RECURSIVE TriedUntilOpen(_, _)
TriedUntilOpen(order, avail) ==
    IF order = <<>> THEN <<>>
    ELSE IF Head(order) \in avail THEN <<Head(order)>>
    ELSE <<Head(order)>> \o TriedUntilOpen(Tail(order), avail)

\* listCameras(maxIndexToProbe): open is called on 0 .. maxIndexToProbe - 1;
\* the indices that open are printed
listCameras(maxIndexToProbe, avail) ==
    LET order == [i \in 1..maxIndexToProbe |-> i - 1]
    IN [probed |-> order, printed |-> SelectSeq(order, LAMBDA i : i \in avail)]

\* variables no capture action changes
envVars == <<tool, term0, argc, argv1, cams, kbd, frameBudget, visibleDicts>>
\* the terminal and the raw-mode statics
termVars == <<term, orig_termios, term_raw_enabled, rawEntries, rawCalls>>
\* what start-up did: open calls, the camera in use, --list output, stderr
openVars == <<requestedIndex, opens, camIdx, listed, diag>>
\* the key read in this iteration and the exit test
keyVars == <<wkey, termByte, exitReq>>
\* detection settings of the toggle and tunable tools
tuneVars == <<onlyDetect6x6_50, useAllDicts, detectEveryN, frameIndex, detectScale>>
\* tunable tool: the detections of the current frame and the cache
cacheVars == <<doDetect, allIds, allCorners, labels, lastIds, lastCorners,
               lastLabels, lastRun>>
\* numbers of cap.read calls, of frames that passed detection, of imshow calls
countVars == <<reads, detected, shows>>
\* the detection pass of the current frame
detVars == <<dictsLeft, sigDetects, detIds, correctIds, correctCorners,
             correctLabels, wrongIds, wrongCorners, wrongLabels, detCount>>

\* policy tool: --list, then the optional device index
ParseArgs ==
    /\ tool = "policy" /\ cpc = "start"
    /\ IF argc >= 2 /\ argv1 = "--list"
         THEN LET l == listCameras(2, cams) IN
              /\ opens' = opens \o l.probed
              /\ listed' = l.printed
              /\ exitCode' = 0 /\ exitCause' = "list" /\ cpc' = "done"
              /\ UNCHANGED <<requestedIndex, diag>>
         ELSE IF argc >= 2
           THEN IF ~numeric(argv1)
                  THEN /\ diag' = "argument"
                       /\ exitCode' = 2 /\ cpc' = "done"
                       /\ UNCHANGED <<requestedIndex, opens, listed, exitCause>>
                ELSE IF stoi(argv1).throws
                  THEN \* std::out_of_range leaves main: std::terminate
                       /\ cpc' = "aborted"
                       /\ UNCHANGED <<requestedIndex, diag, exitCode, opens, listed,
                                      exitCause>>
                ELSE LET idx == stoi(argv1).value IN
                     /\ requestedIndex' = idx
                     /\ IF idx < 0 \/ idx > 1
                          THEN diag' = "argument" /\ exitCode' = 2 /\ cpc' = "done"
                          ELSE cpc' = "open" /\ UNCHANGED <<diag, exitCode>>
                     /\ UNCHANGED <<opens, listed, exitCause>>
           ELSE /\ cpc' = "open"
                /\ UNCHANGED <<requestedIndex, diag, exitCode, opens, listed, exitCause>>
    /\ UNCHANGED <<envVars, cacheVars, termVars, camIdx, keyVars, tuneVars, countVars, detVars,
                   g_signal_exit, handlers, genVars, fpsVars>>

\* a variant of the camera open that goes on without testing the result
OpenCameraUnchecked ==
    /\ \/ tool # "policy" /\ cpc = "start"
       \/ tool = "policy" /\ cpc = "open"
    /\ LET order == IF tool # "policy" THEN <<0>>
                    ELSE IF requestedIndex >= 0 THEN <<requestedIndex>>
                    ELSE kOpenIndices
           tried == TriedUntilOpen(order, cams)
           last == tried[Len(tried)]
       IN /\ opens' = opens \o tried
          /\ IF last \in cams
               THEN /\ camIdx' = last
                    /\ cpc' = "opened"
                    /\ UNCHANGED <<diag, exitCode>>
               ELSE /\ cpc' = "opened"
                    /\ UNCHANGED <<camIdx, diag, exitCode>>
    /\ UNCHANGED <<envVars, cacheVars, termVars, requestedIndex, listed, keyVars, tuneVars,
                   countVars, detVars, g_signal_exit, handlers, exitCause,
                   genVars, fpsVars>>

\* the camera is opened.  basic, toggle, tunable: cv::VideoCapture cap(0), and
\* return -1 when it is not open.  policy: the requested index alone (return 3
\* on failure), or 0 then 1 (return 1 when neither opens).
OpenCamera ==
    /\ \/ tool # "policy" /\ cpc = "start"
       \/ tool = "policy" /\ cpc = "open"
    /\ LET order == IF tool # "policy" THEN <<0>>
                    ELSE IF requestedIndex >= 0 THEN <<requestedIndex>>
                    ELSE kOpenIndices
           tried == TriedUntilOpen(order, cams)
           last == tried[Len(tried)]
       IN /\ opens' = opens \o tried
          /\ IF last \in cams
               THEN /\ camIdx' = last
                    /\ cpc' = "opened"
                    /\ UNCHANGED <<diag, exitCode>>
               ELSE /\ diag' = "open"
                    /\ exitCode' = (IF tool # "policy" THEN -1
                                    ELSE IF requestedIndex >= 0 THEN 3 ELSE 1)
                    /\ cpc' = "done"
                    /\ UNCHANGED camIdx
    /\ UNCHANGED <<envVars, cacheVars, termVars, requestedIndex, listed, keyVars, tuneVars,
                   countVars, detVars, g_signal_exit, handlers, exitCause,
                   genVars, fpsVars>>

\* TerminalRawGuard terminalGuard;
EnterRaw ==
    /\ cpc = "opened"
    /\ enableRawTerminal
    /\ rawEntries' = rawEntries + 1
    /\ rawCalls' = Append(rawCalls, "enable")
    /\ cpc' = "guarded"
    /\ UNCHANGED <<envVars, cacheVars, openVars, keyVars, tuneVars, countVars, detVars,
                   g_signal_exit, handlers, exitCause, exitCode, genVars, fpsVars>>

\* signal(SIGINT, ...); signal(SIGTERM, ...); signal(SIGHUP, ...);
RegisterSignals ==
    /\ cpc = "guarded"
    /\ handlers' = TRUE
    /\ cpc' = "read"
    /\ UNCHANGED <<envVars, cacheVars, termVars, openVars, keyVars, tuneVars, countVars, detVars,
                   g_signal_exit, exitCause, exitCode, genVars, fpsVars>>

\* the number of dictionaries in the capture tools' kDicts
NumDicts == 17
\* tunable tool: std::vector<int> subsetIdx = {10, 16}
subsetIdx == <<10, 16>>

\* the names in the capture tools' kDicts, by index 0..16
kDictNames ==
    <<"4X4_50", "4X4_100", "4X4_250", "4X4_1000", "5X5_50", "5X5_100", "5X5_250",
      "5X5_1000", "6X6_50", "6X6_100", "6X6_250", "6X6_1000", "7X7_50", "7X7_100",
      "7X7_250", "7X7_1000", "ARUCO_ORIGINAL">>

\* tunable tool: the marker ids a detectMarkers call can find in a dictionary
\* that has a marker in view (at most one per call)
TunableIds == {5}

\* tunable tool: bool doDetect = ((frameIndex % detectEveryN) == 0)
doDetectNow == frameIndex % detectEveryN = 0

\* tunable tool: the index in kDicts of the dictionary the next detectMarkers
\* call scans, from the number of calls still to make
scannedDict ==
    IF useAllDicts THEN NumDicts - dictsLeft
    ELSE subsetIdx[Len(subsetIdx) - dictsLeft + 1]

\* a variant of the cache store that keeps the old cache
storeCacheNever(all, last) == last

\* tunable tool: lastIds = allIds; lastCorners = allCorners; lastLabels = labels
storeCache(all, last) == all

\* before any frame ran detection
NoRun == [frame |-> 0, ids |-> <<>>, corners |-> <<>>, labels |-> <<>>]

\* the number of cv::aruco::detectMarkers calls the tool makes for one frame
DetectCalls ==
    CASE tool = "basic" -> 1
      [] tool = "policy" -> 1
      [] tool = "toggle" -> (IF onlyDetect6x6_50 THEN 1 ELSE NumDicts)
      [] tool = "tunable" ->
           (IF doDetectNow
              THEN (IF useAllDicts THEN NumDicts ELSE Len(subsetIdx))
              ELSE 0)

\* policy tool: ids detectMarkers can return for a frame, at most MaxDet of them
MarkerIds == {3, 7, 12}
DetResults == UNION {[1..n -> MarkerIds] : n \in 0..MaxDet}

\* a variant of the id policy that accepts id 3 only
kSpecialOnlyThree == {3}

\* the keys of kSpecialNames
kSpecialIds == {3, 7}

kSpecialNames(id) == IF id = 3 THEN "Three's Company" ELSE "Lucky Number Seven"

\* the classification loop over ids[0..n-1], pushing onto the lists in acc
RECURSIVE Classify(_, _, _)
Classify(ids, n, acc) ==
    IF n = 0 THEN acc
    ELSE LET a == Classify(ids, n - 1, acc)
             id == ids[n]
         IN IF id \notin kSpecialIds
              THEN [a EXCEPT !.wrongCorners = Append(@, n),
                             !.wrongIds = Append(@, id),
                             !.wrongLabels = Append(@, "Wrong_ID_" \o FormatD(id))]
              ELSE [a EXCEPT !.correctCorners = Append(@, n),
                             !.correctIds = Append(@, id),
                             !.correctLabels = Append(@, kSpecialNames(id))]

\* a variant of the frame read that tries again after a failed read
ReadFrameRetry ==
    /\ cpc = "read"
    /\ reads' = reads + 1
    /\ wkey' = -1 /\ termByte' = NoByte /\ exitReq' = FALSE
    /\ \E ok \in BOOLEAN :
         IF ok /\ reads < frameBudget
           THEN /\ cpc' = "detect"
                /\ dictsLeft' = DetectCalls
                /\ doDetect' = (IF tool = "tunable" THEN doDetectNow ELSE TRUE)
                /\ detIds' = <<>>
                /\ correctIds' = <<>> /\ correctCorners' = <<>> /\ correctLabels' = <<>>
                /\ wrongIds' = <<>> /\ wrongCorners' = <<>> /\ wrongLabels' = <<>>
                /\ allIds' = <<>> /\ allCorners' = <<>> /\ labels' = <<>>
                /\ UNCHANGED exitCause
           ELSE /\ cpc' = "read" /\ exitCause' = "readfail"
                /\ UNCHANGED <<dictsLeft, detIds, correctIds, correctCorners,
                               correctLabels, wrongIds, wrongCorners, wrongLabels,
                               doDetect, allIds, allCorners, labels>>
    /\ UNCHANGED <<envVars, termVars, openVars, tuneVars, detected, shows,
                   sigDetects, detCount, lastIds, lastCorners, lastLabels, lastRun,
                   g_signal_exit, handlers, exitCode, genVars, fpsVars>>

\* a new iteration starts (the key of the previous one is out of scope):
\* if (!cap.read(frame) || frame.empty()) break;
\* after a good read the per-frame containers are constructed empty
ReadFrame ==
    /\ cpc = "read"
    /\ reads' = reads + 1
    /\ wkey' = -1 /\ termByte' = NoByte /\ exitReq' = FALSE
    /\ \E ok \in BOOLEAN :
         IF ok /\ reads < frameBudget
           THEN /\ cpc' = "detect"
                /\ dictsLeft' = DetectCalls
                /\ doDetect' = (IF tool = "tunable" THEN doDetectNow ELSE TRUE)
                /\ detIds' = <<>>
                /\ correctIds' = <<>> /\ correctCorners' = <<>> /\ correctLabels' = <<>>
                /\ wrongIds' = <<>> /\ wrongCorners' = <<>> /\ wrongLabels' = <<>>
                /\ allIds' = <<>> /\ allCorners' = <<>> /\ labels' = <<>>
                /\ UNCHANGED exitCause
           ELSE /\ cpc' = "cleanup" /\ exitCause' = "readfail"
                /\ UNCHANGED <<dictsLeft, detIds, correctIds, correctCorners,
                               correctLabels, wrongIds, wrongCorners, wrongLabels,
                               doDetect, allIds, allCorners, labels>>
    /\ UNCHANGED <<envVars, termVars, openVars, tuneVars, detected, shows,
                   sigDetects, detCount, lastIds, lastCorners, lastLabels, lastRun,
                   g_signal_exit, handlers, exitCode, genVars, fpsVars>>

\* one cv::aruco::detectMarkers call of the current frame's detection pass.
\* policy: the call returns the ids of the frame.  tunable: detectInDict(i)
\* appends what the call found in dictionary i to allIds, allCorners, labels.
DetectCall ==
    /\ cpc = "detect"
    /\ dictsLeft > 0
    /\ dictsLeft' = dictsLeft - 1
    /\ sigDetects' = sigDetects + (IF g_signal_exit = 1 THEN 1 ELSE 0)
    /\ IF tool = "policy"
         THEN \E ids \in DetResults : detIds' = ids
         ELSE UNCHANGED detIds
    /\ IF tool = "tunable" /\ scannedDict \in visibleDicts
         THEN \E found \in {<<>>} \cup {<<id>> : id \in TunableIds} :
                IF found = <<>>
                  THEN UNCHANGED <<allIds, allCorners, labels>>
                  ELSE /\ allIds' = Append(allIds, found[1])
                       /\ allCorners' = Append(allCorners, <<reads, scannedDict>>)
                       /\ labels' = Append(labels, kDictNames[scannedDict + 1] \o ":"
                                                     \o FormatD(found[1]))
         ELSE UNCHANGED <<allIds, allCorners, labels>>
    /\ UNCHANGED <<envVars, termVars, openVars, keyVars, tuneVars, countVars,
                   correctIds, correctCorners, correctLabels,
                   wrongIds, wrongCorners, wrongLabels, detCount,
                   doDetect, lastIds, lastCorners, lastLabels, lastRun,
                   cpc, g_signal_exit, handlers, exitCause, exitCode, genVars, fpsVars>>

\* after the last detectMarkers call.  policy: the detections are sorted into
\* the correct and wrong lists.  tunable: a frame that ran detection stores
\* its lists in the cache, a skipped frame takes its lists from the cache.
\* Then the overlay and the status line are drawn.
Detect ==
    /\ cpc = "detect"
    /\ dictsLeft = 0
    /\ IF tool = "policy"
         THEN LET r == Classify(detIds, Len(detIds),
                                [correctIds |-> correctIds,
                                 correctCorners |-> correctCorners,
                                 correctLabels |-> correctLabels,
                                 wrongIds |-> wrongIds,
                                 wrongCorners |-> wrongCorners,
                                 wrongLabels |-> wrongLabels])
              IN /\ correctIds' = r.correctIds
                 /\ correctCorners' = r.correctCorners
                 /\ correctLabels' = r.correctLabels
                 /\ wrongIds' = r.wrongIds
                 /\ wrongCorners' = r.wrongCorners
                 /\ wrongLabels' = r.wrongLabels
                 /\ detCount' = Len(r.correctLabels)
                 /\ UNCHANGED <<allIds, allCorners, labels, lastIds, lastCorners,
                                lastLabels, lastRun>>
         ELSE IF tool = "tunable"
           THEN /\ IF doDetect
                     THEN /\ lastIds' = storeCache(allIds, lastIds)
                          /\ lastCorners' = storeCache(allCorners, lastCorners)
                          /\ lastLabels' = storeCache(labels, lastLabels)
                          /\ lastRun' = [frame |-> reads, ids |-> allIds,
                                         corners |-> allCorners, labels |-> labels]
                          /\ UNCHANGED <<allIds, allCorners, labels>>
                     ELSE /\ allIds' = lastIds
                          /\ allCorners' = lastCorners
                          /\ labels' = lastLabels
                          /\ UNCHANGED <<lastIds, lastCorners, lastLabels, lastRun>>
                /\ detCount' = Len(labels')
                /\ UNCHANGED <<correctIds, correctCorners, correctLabels,
                               wrongIds, wrongCorners, wrongLabels>>
         ELSE UNCHANGED <<correctIds, correctCorners, correctLabels,
                          wrongIds, wrongCorners, wrongLabels, detCount,
                          allIds, allCorners, labels, lastIds, lastCorners,
                          lastLabels, lastRun>>
    /\ detected' = detected + 1
    /\ cpc' = "show"
    /\ UNCHANGED <<envVars, termVars, openVars, keyVars, tuneVars, reads, shows,
                   dictsLeft, sigDetects, detIds, doDetect,
                   g_signal_exit, handlers, exitCause, exitCode, genVars, fpsVars>>

\* tunable tool: const double scales[] = {1.0, 0.75, 0.5, 0.33}, in hundredths
scales == <<100, 75, 50, 33>>

\* a variant of the scale hotkey that stops at the last scale
nextScaleNoWrap(d) ==
    IF \E i \in 1..3 : scales[i] = d
      THEN scales[(CHOOSE i \in 1..3 : scales[i] = d) + 1]
      ELSE d

\* 'z'/'Z': for (i = 0; i < 4; i++) if (fabs(detectScale - scales[i]) < 1e-3)
\*            { detectScale = scales[(i+1)%4]; break; }
nextScale(d) ==
    IF \E i \in 1..4 : scales[i] = d
      THEN LET i == CHOOSE j \in 1..4 : scales[j] = d /\ \A h \in 1..(j - 1) : scales[h] # d
           IN scales[(i % 4) + 1]
      ELSE d

\* cv::imshow(...); int key = cv::waitKey(1); then the tool's own hotkeys:
\* toggle: 't', 'T', '6' flip onlyDetect6x6_50 (the key is compared unmasked);
\* tunable: on key & 0xFF, 'a'/'A' flip useAllDicts, '1'..'4' set detectEveryN,
\* 'z'/'Z' moves detectScale to the next of scales
ShowWaitKey ==
    /\ cpc = "show"
    /\ shows' = shows + 1
    /\ \E k \in kbd :
         /\ wkey' = k
         /\ onlyDetect6x6_50' =
              IF tool = "toggle" /\ k \in {116, 84, 54} THEN ~onlyDetect6x6_50
              ELSE onlyDetect6x6_50
         /\ useAllDicts' =
              IF tool = "tunable" /\ k >= 0 /\ Low8(k) \in {97, 65} THEN ~useAllDicts
              ELSE useAllDicts
         /\ detectEveryN' =
              IF tool = "tunable" /\ k >= 0 /\ Low8(k) \in 49..52 THEN Low8(k) - 48
              ELSE detectEveryN
         /\ detectScale' =
              IF tool = "tunable" /\ k >= 0 /\ Low8(k) \in {122, 90}
                THEN nextScale(detectScale)
                ELSE detectScale
    /\ cpc' = "check"
    /\ UNCHANGED <<envVars, cacheVars, termVars, openVars, termByte, exitReq, frameIndex,
                   reads, detected, detVars,
                   g_signal_exit, handlers, exitCause, exitCode, genVars, fpsVars>>

\* a variant of the exit test that does not look at the signal flag
exitOnSignalNever(f) == FALSE

\* exitRequested's last test: if (g_signal_exit) return true;
exitOnSignal(f) == f = 1

\* if (exitRequested(key)) break;
\* exitRequested tests the window key, then (only if that was no exit key) one
\* byte read from stdin, then the signal flag.  The tunable tool ends an
\* iteration that goes on with ++frameIndex.  Either way the iteration's
\* scope ends here and its containers are destroyed.
ExitCheck ==
    /\ cpc = "check"
    /\ \E b \in StdinBytes \cup {NoByte} :
         LET winExit == isExitKey(tool, wkey)
             read == IF winExit THEN NoByte ELSE b
             termExit == read # NoByte /\ isExitKey(tool, read)
             sigExit == exitOnSignal(g_signal_exit)
             req == winExit \/ termExit \/ sigExit
         IN /\ termByte' = read
            /\ exitReq' = req
            /\ cpc' = IF req THEN "cleanup" ELSE "read"
            /\ exitCause' = IF winExit THEN "key"
                            ELSE IF termExit THEN "term"
                            ELSE IF sigExit THEN "signal"
                            ELSE exitCause
            /\ frameIndex' = IF tool = "tunable" /\ ~req THEN frameIndex + 1
                             ELSE frameIndex
    /\ detIds' = <<>>
    /\ correctIds' = <<>> /\ correctCorners' = <<>> /\ correctLabels' = <<>>
    /\ wrongIds' = <<>> /\ wrongCorners' = <<>> /\ wrongLabels' = <<>>
    /\ allIds' = <<>> /\ allCorners' = <<>> /\ labels' = <<>>
    /\ UNCHANGED <<envVars, termVars, openVars, wkey, onlyDetect6x6_50, useAllDicts,
                   detectEveryN, detectScale, doDetect, lastIds, lastCorners,
                   lastLabels, lastRun, countVars, dictsLeft, sigDetects, detCount,
                   g_signal_exit, handlers, exitCode, genVars, fpsVars>>

\* return 0; the destructor of terminalGuard runs disableRawTerminal
Cleanup ==
    /\ cpc = "cleanup"
    /\ disableRawTerminal
    /\ rawCalls' = Append(rawCalls, "disable")
    /\ exitCode' = 0
    /\ cpc' = "done"
    /\ UNCHANGED <<envVars, cacheVars, rawEntries, openVars, keyVars, tuneVars, countVars,
                   detVars, g_signal_exit, handlers, exitCause, genVars, fpsVars>>

\* SIGINT, SIGTERM or SIGHUP is delivered: handleSignal sets the flag once the
\* handlers are registered; before that the default action ends the process
Signal ==
    /\ cpc \notin {"done", "killed", "aborted"}
    /\ IF handlers
         THEN g_signal_exit' = 1 /\ UNCHANGED cpc
         ELSE cpc' = "killed" /\ UNCHANGED g_signal_exit
    /\ UNCHANGED <<envVars, cacheVars, termVars, openVars, keyVars, tuneVars, countVars, detVars,
                   handlers, exitCause, exitCode, genVars, fpsVars>>

\* enableRawTerminal() called on its own, in any state of the terminal
CallEnable ==
    /\ cpc = "helpers"
    /\ Len(rawCalls) < MaxRawCalls
    /\ enableRawTerminal
    /\ rawCalls' = Append(rawCalls, "enable")
    /\ rawEntries' = rawEntries + (IF term_raw_enabled THEN 0 ELSE 1)
    /\ UNCHANGED <<envVars, cacheVars, openVars, keyVars, tuneVars, countVars, detVars,
                   cpc, g_signal_exit, handlers, exitCause, exitCode, genVars, fpsVars>>

\* disableRawTerminal() called on its own, in any state of the terminal
CallDisable ==
    /\ cpc = "helpers"
    /\ Len(rawCalls) < MaxRawCalls
    /\ disableRawTerminal
    /\ rawCalls' = Append(rawCalls, "disable")
    /\ UNCHANGED <<envVars, cacheVars, rawEntries, openVars, keyVars, tuneVars, countVars,
                   detVars, cpc, g_signal_exit, handlers, exitCause, exitCode,
                   genVars, fpsVars>>

\* ================================================================= FpsStats
\* time passing between two calls, in whole milliseconds
TimeSteps == {250, 999, 1000, 1001, 2500}

RECURSIVE Pow10(_)
Pow10(n) == IF n = 0 THEN 1 ELSE 10 * Pow10(n - 1)

\* a variant of the rollover test that also fires at exactly 1000 ms
rolloverDueAtOrAfter(t, start) == t - start >= 1000

\* if (now - fpsStart > 1000.0)
rolloverDue(t, start) == t - start > 1000

\* the steady clock advances between two calls
ClockAdvance ==
    /\ now < MaxNow
    /\ \E d \in TimeSteps : now' = now + d
    /\ UNCHANGED <<fpsStart, avgFpsNum, fps1sec, rollovers, ticks, genVars, capVars>>

\* FpsStats::tickFps.  avgFps is kept exactly, as avgFpsNum / 10^rollovers:
\* 0.7 * avgFps + 0.3 * fps1sec = (7 * avgFpsNum + 3 * fps1sec * 10^rollovers) / 10^(rollovers + 1)
tickFps ==
    /\ ticks < MaxTicks
    /\ ticks' = ticks + 1
    /\ IF rolloverDue(now, fpsStart)
         THEN /\ fpsStart' = now
              /\ avgFpsNum' = 7 * avgFpsNum + 3 * fps1sec * Pow10(rollovers)
              /\ rollovers' = rollovers + 1
              /\ fps1sec' = 0 + 1
         ELSE /\ fps1sec' = fps1sec + 1
              /\ UNCHANGED <<fpsStart, avgFpsNum, rollovers>>
    /\ UNCHANGED <<now, genVars, capVars>>

\* ==================================================== initial states, specs
\* the generator is not running
GenIdle ==
    /\ dictIdx = 8 /\ markerId = 0 /\ markerSize = 300 /\ borderBits = 1
    /\ defaultOut = "" /\ showHelp = TRUE /\ needRedraw = TRUE
    /\ key = -1 /\ gpc = "done" /\ shown = NoImg
    /\ written = [path |-> "", img |-> NoImg]
    /\ presses = 0 /\ nextIds = 0 /\ budget = 0
    /\ shownHelp = FALSE /\ banner = "" /\ renders = 0 /\ saveOutcome = "none"

\* the capture tools' locals and statics before main has done anything
CapLocals ==
    /\ requestedIndex = NoIndex /\ opens = <<>> /\ camIdx = NoIndex
    /\ listed = <<>> /\ diag = "none" /\ rawEntries = 0 /\ rawCalls = <<>>
    /\ onlyDetect6x6_50 = FALSE /\ useAllDicts = FALSE
    /\ detectEveryN = 1 /\ frameIndex = 0
    /\ reads = 0 /\ detected = 0 /\ shows = 0
    /\ dictsLeft = 0 /\ sigDetects = 0 /\ detIds = <<>>
    /\ correctIds = <<>> /\ correctCorners = <<>> /\ correctLabels = <<>>
    /\ wrongIds = <<>> /\ wrongCorners = <<>> /\ wrongLabels = <<>>
    /\ detCount = 0
    /\ detectScale = 50 /\ doDetect = TRUE
    /\ allIds = <<>> /\ allCorners = <<>> /\ labels = <<>>
    /\ lastIds = <<>> /\ lastCorners = <<>> /\ lastLabels = <<>>
    /\ lastRun = NoRun

\* no capture tool is running
CapIdle ==
    /\ tool = "basic" /\ cpc = "done"
    /\ term = [icanon |-> TRUE, echo |-> TRUE, nonblock |-> FALSE]
    /\ term0 = term
    /\ orig_termios = [icanon |-> FALSE, echo |-> FALSE]
    /\ term_raw_enabled = FALSE /\ g_signal_exit = 0 /\ handlers = FALSE
    /\ wkey = -1 /\ termByte = NoByte /\ exitReq = FALSE
    /\ exitCause = "none" /\ exitCode = NoCode
    /\ argc = 1 /\ argv1 = "" /\ cams = {}
    /\ kbd = {} /\ frameBudget = 0 /\ visibleDicts = {}
    /\ CapLocals

\* no FpsStats object is in use
FpsIdle ==
    /\ now = 0 /\ fpsStart = 0 /\ avgFpsNum = 0 /\ fps1sec = 0
    /\ rollovers = 0 /\ ticks = 0

\* struct State's member initialisers, then main's locals
GenDefaults ==
    /\ dictIdx = 8 /\ markerId = 0 /\ markerSize = 300 /\ borderBits = 1
    /\ defaultOut = "" /\ showHelp = TRUE

GenLocals ==
    /\ needRedraw = TRUE /\ key = -1 /\ gpc = "top" /\ shown = NoImg
    /\ written = [path |-> "", img |-> NoImg]
    /\ presses = 0 /\ nextIds = 0
    /\ shownHelp = FALSE /\ banner = "" /\ renders = 0 /\ saveOutcome = "none"

\* the generator started with any of the command lines: the flags are copied
\* into the State unvalidated
InitGen ==
    /\ dictIdx \in CliDict
    /\ markerId \in CliId
    /\ markerSize \in CliSize
    /\ borderBits \in CliBorder
    /\ defaultOut \in CliOut
    /\ showHelp = TRUE
    /\ GenLocals
    /\ budget = MaxPresses
    /\ CapIdle /\ FpsIdle

NextGen ==
    \/ LoopTop \/ NoKey \/ Quit \/ ToggleHelp \/ PrevDict \/ NextDict
    \/ PrevId \/ NextId \/ SizeUp \/ SizeDown \/ BorderDown \/ BorderUp
    \/ RandomId \/ Save \/ OtherKey

Spec == InitGen /\ [][NextGen]_vars

\* the generator started without flags; the user presses next-id and save only
InitScenario ==
    /\ GenDefaults /\ GenLocals
    /\ budget = MaxScenarioPresses
    /\ CapIdle /\ FpsIdle

NextScenario == LoopTop \/ NextId \/ Save

SpecScenario == InitScenario /\ [][NextScenario]_vars

\* a capture tool started on a terminal in any mode
InitCapture ==
    /\ tool \in Tools
    /\ cpc = "start"
    /\ term \in [icanon : BOOLEAN, echo : BOOLEAN, nonblock : BOOLEAN]
    /\ term0 = term
    /\ orig_termios = [icanon |-> FALSE, echo |-> FALSE]
    /\ term_raw_enabled = FALSE /\ g_signal_exit = 0 /\ handlers = FALSE
    /\ wkey = -1 /\ termByte = NoByte /\ exitReq = FALSE
    /\ exitCause = "none" /\ exitCode = NoCode
    /\ IF tool = "policy"
         THEN /\ cams \in SUBSET CameraIndices
              /\ \/ argc = 1 /\ argv1 = ""
                 \/ argc = 2 /\ argv1 \in ArgStrings
         ELSE \* main() takes no arguments and opens index 0 only
              /\ cams \in SUBSET {0}
              /\ argc = 1 /\ argv1 = ""
    /\ kbd = WindowKeys /\ frameBudget = MaxFrames /\ visibleDicts = {}
    /\ CapLocals
    /\ GenIdle /\ FpsIdle

NextCapture ==
    \/ ParseArgs \/ OpenCamera \/ EnterRaw \/ RegisterSignals \/ ReadFrame
    \/ DetectCall \/ Detect
    \/ ShowWaitKey \/ ExitCheck \/ Cleanup \/ Signal

SpecCapture == InitCapture /\ [][NextCapture]_vars

\* the terminal helpers exercised on their own, on a terminal in any mode
InitRaw ==
    /\ tool = "policy"
    /\ cpc = "helpers"
    /\ term \in [icanon : BOOLEAN, echo : BOOLEAN, nonblock : BOOLEAN]
    /\ term0 = term
    /\ orig_termios = [icanon |-> FALSE, echo |-> FALSE]
    /\ term_raw_enabled = FALSE /\ g_signal_exit = 0 /\ handlers = FALSE
    /\ wkey = -1 /\ termByte = NoByte /\ exitReq = FALSE
    /\ exitCause = "none" /\ exitCode = NoCode
    /\ argc = 1 /\ argv1 = "" /\ cams = {}
    /\ kbd = {} /\ frameBudget = 0 /\ visibleDicts = {}
    /\ CapLocals
    /\ GenIdle /\ FpsIdle

NextRaw == CallEnable \/ CallDisable

SpecRaw == InitRaw /\ [][NextRaw]_vars

\* the tunable tool started on a cooked terminal with a camera at index 0;
\* markers of the dictionaries 4X4_1000 (outside the fast subset) and 6X6_250
\* (inside it) can be in view; the user presses the tool's hotkeys
InitTunable ==
    /\ tool = "tunable"
    /\ cpc = "start"
    /\ term = [icanon |-> TRUE, echo |-> TRUE, nonblock |-> FALSE]
    /\ term0 = term
    /\ orig_termios = [icanon |-> FALSE, echo |-> FALSE]
    /\ term_raw_enabled = FALSE /\ g_signal_exit = 0 /\ handlers = FALSE
    /\ wkey = -1 /\ termByte = NoByte /\ exitReq = FALSE
    /\ exitCause = "none" /\ exitCode = NoCode
    /\ argc = 1 /\ argv1 = "" /\ cams = {0}
    /\ kbd = TunableKeys /\ frameBudget = MaxTunableFrames /\ visibleDicts = {3, 10}
    /\ CapLocals
    /\ GenIdle /\ FpsIdle

NextTunable ==
    \/ OpenCamera \/ EnterRaw \/ RegisterSignals \/ ReadFrame
    \/ DetectCall \/ Detect
    \/ ShowWaitKey \/ ExitCheck \/ Cleanup

SpecTunable == InitTunable /\ [][NextTunable]_vars

\* FpsStats constructed at clock value 0: fpsStart = nowMs()
InitFps ==
    /\ now = 0 /\ fpsStart = now /\ avgFpsNum = 0 /\ fps1sec = 0
    /\ rollovers = 0 /\ ticks = 0
    /\ GenIdle /\ CapIdle

NextFps == ClockAdvance \/ tickFps

SpecFps == InitFps /\ [][NextFps]_vars

\* ==================================================================== claims
\* the hotkey the last key read was classified as, once a key has been handled
Handled(h) == presses > 0 /\ gpc # "key" /\ Hotkey(key) = h
\* a step of the generator that reads and handles one key
KeyStep == presses' = presses + 1
Contains(s, sub) ==
    \E i \in 1..(Len(s) - Len(sub) + 1) : SubSeq(s, i, i + Len(sub) - 1) = sub

\* C1: after every previous-dictionary ('d') or next-dictionary ('D') hotkey,
\* from every state the generator can be in (the --d/--id flags included), the
\* marker id is within [0, capacity of the now-active dictionary).
C1_IdInRangeAfterDictChange ==
    (Handled("prevDict") \/ Handled("nextDict"))
        => (0 <= markerId /\ markerId < currentDictSize(dictIdx))

\* C2: after every size-up, size-down, border-down or border-up hotkey, whatever
\* the starting values (--ms/--bb included), the size is within [50, 4096] and
\* the border-bit width within [0, 7].
C2_SizeBorderInBounds ==
    (Handled("sizeUp") \/ Handled("sizeDown") \/ Handled("borderDown") \/ Handled("borderUp"))
        => (50 <= markerSize /\ markerSize <= 4096 /\ 0 <= borderBits /\ borderBits <= 7)

\* C3: in every capture tool, a window key code above 255 is never taken as an
\* exit request by the exit-key test: the loop is never left because of the
\* window key when that key is an extended code.
C3_NoExitOnExtendedKey ==
    (exitCause = "key") => wkey <= 255

\* C4: in the generator, both Left-arrow codes (65361 and 2424832) do what ','
\* does: the previous-id transition (id - 1, wrapping below 0 to capacity - 1,
\* redraw requested, nothing else changed), and no key code above 255 ends the
\* main loop.
C4_LeftArrowsSelectPrevId ==
    [][KeyStep =>
        /\ (key' \in {KEY_LEFT_1, KEY_LEFT_2, 44} =>
              /\ markerId' = (IF markerId - 1 < 0 THEN currentDictSize(dictIdx) - 1
                              ELSE markerId - 1)
              /\ needRedraw' = TRUE
              /\ gpc' = "top"
              /\ UNCHANGED <<dictIdx, markerSize, borderBits, defaultOut, showHelp,
                             written>>)
        /\ (key' > 255 => gpc' # "done")]_vars

\* C4 witness: the X11 Left code (0xFF51, low byte 'Q') was handled from id 0 of
\* dictionary 8 and wrapped the id to 49 without leaving the loop.
C4_Witness ==
    /\ key = KEY_LEFT_1 /\ presses = 1 /\ gpc = "top"
    /\ dictIdx = 8 /\ markerId = 49 /\ needRedraw

C6_RolloverAtEachBoundary ==
    [][ticks' = ticks + 1 =>
        IF now - fpsStart >= 1000
          THEN rollovers' = rollovers + 1
          ELSE rollovers' = rollovers /\ avgFpsNum' = avgFpsNum
               /\ fps1sec' = fps1sec + 1]_vars

\* C6 (amended): a tickFps call rolls over exactly when more than 1000 ms have
\* elapsed since the rollover clock; a call at 1000 ms or less leaves avgFps and
\* the rollover clock alone and only increments the counter; a call that rolls
\* over does so once, however many seconds have elapsed, folding the counter
\* into avgFps = 0.7 * avgFps + 0.3 * counter and restarting the counter at 1.
C6_RolloverAfterBoundary ==
    [][ticks' = ticks + 1 =>
        IF now - fpsStart > 1000
          THEN /\ rollovers' = rollovers + 1
               /\ fpsStart' = now
               /\ avgFpsNum' = 7 * avgFpsNum + 3 * fps1sec * Pow10(rollovers)
               /\ fps1sec' = 1
          ELSE /\ rollovers' = rollovers /\ avgFpsNum' = avgFpsNum
               /\ fpsStart' = fpsStart
               /\ fps1sec' = fps1sec + 1]_vars

\* C6 witness: the first rollover happened 2500 ms or more after construction
\* (several seconds between two calls, one rollover), and a later call came
\* exactly 1000 ms after it without rolling over.
C6_Witness ==
    /\ rollovers = 1 /\ fpsStart >= 2500
    /\ now - fpsStart = 1000 /\ fps1sec = 2 /\ ticks >= 2

\* C7: next-id sets the id to (id + 1) mod C and previous-id to (id - 1) mod C,
\* C the active dictionary's capacity, so the id is in [0, C) afterwards, and
\* neither changes dictionary index, size or border bits.
C7_IdHotkeysWrap ==
    [][(KeyStep /\ Hotkey(key') \in {"prevId", "nextId"}) =>
        LET C == currentDictSize(dictIdx) IN
        /\ markerId' = (IF Hotkey(key') = "nextId" THEN (markerId + 1) % C
                        ELSE (markerId - 1) % C)
        /\ 0 <= markerId' /\ markerId' < C
        /\ UNCHANGED <<dictIdx, markerSize, borderBits>>]_vars

\* C8: after every previous-dictionary or next-dictionary hotkey, from any
\* starting index (one given with --d included), the dictionary index is
\* within the dictionary list [0, 16].
C8_DictIdxInList ==
    (Handled("prevDict") \/ Handled("nextDict"))
        => (0 <= dictIdx /\ dictIdx <= 16)

\* C9: from the generator's initial state (dictionary 8, id 0, size 300,
\* border 1, no output path), after n next-id presses the id is n mod 50, and a
\* file a save writes then has a name containing "id<n mod 50>" and
\* DICT_6X6_50.
C9_NextIdScenario ==
    /\ [](markerId = nextIds % currentDictSize(8) /\ currentDictSize(8) = 50)
    /\ [][written' # written =>
            /\ Contains(written'.path, "_id" \o FormatD(nextIds % 50) \o "_")
            /\ Contains(written'.path, "DICT_6X6_50")]_vars

\* C9 witness: 50 next-id presses brought the id back to 0 and the save that
\* followed wrote marker_DICT_6X6_50_id0_300px_bb1.png.
C9_Witness ==
    /\ nextIds = 50 /\ presses = 51 /\ markerId = 0 /\ Hotkey(key) = "save"
    /\ written.path = "marker_DICT_6X6_50_id0_300px_bb1.png"

OpenFailed == opens # <<>> /\ exitCause # "list" /\ camIdx = NoIndex

\* C11: in every capture tool, when the camera cannot be opened the program
\* has written a diagnostic to standard error, has returned a nonzero exit
\* code, and no frame was read, detected or shown (no window was opened).
C11_OpenFailureEndsBeforeWindow ==
    OpenFailed =>
        /\ cpc = "done"
        /\ diag = "open"
        /\ exitCode # 0 /\ exitCode # NoCode
        /\ reads = 0 /\ detected = 0 /\ shows = 0

\* the tunable tool found no camera and returned
C11_Witness ==
    /\ tool = "tunable" /\ cams = {} /\ opens = <<0>>
    /\ cpc = "done" /\ diag = "open" /\ exitCode = -1

\* the first argument of the policy tool is a device index it accepts
ValidIndexArg ==
    /\ numeric(argv1)
    /\ ~stoi(argv1).throws
    /\ stoi(argv1).value \in {0, 1}

\* the policy tool was started with a first argument that is neither --list
\* nor a valid device index
InvalidArg == tool = "policy" /\ argc = 2 /\ argv1 # "--list" /\ ~ValidIndexArg

\* C12: every capture tool's exit code is 0 exactly when it ends by a normal
\* quit (exit key, signal, end of stream or --list), and is a value in 1..3
\* when it ends because the camera could not be opened or the device index
\* was invalid.
C12_ExitCodes ==
    /\ cpc = "done" =>
         (exitCode = 0 <=> exitCause \in {"key", "term", "signal", "readfail", "list"})
    /\ (cpc = "done" /\ OpenFailed) => exitCode \in 1..3
    /\ (cpc \in {"done", "aborted"} /\ InvalidArg) => exitCode \in 1..3

\* C13: in the policy tool an invalid first argument (not all digits, or a
\* number outside {0, 1}) ends the program with a report on standard error
\* and exit code 2, before any camera open is attempted and before raw mode
\* is entered.
C13_InvalidArgExitsTwo ==
    (InvalidArg /\ cpc \in {"done", "aborted"}) =>
        /\ cpc = "done"
        /\ diag = "argument"
        /\ exitCode = 2
        /\ opens = <<>>
        /\ rawEntries = 0

\* C14: the policy tool with no argument tries index 0 and then, only if 0
\* failed, index 1, uses the first that opens and tries no other index; with
\* argument 0 or 1 it tries only that index; with --list it probes indices 0
\* and 1 only, prints those that open, returns 0 and never reads or shows a
\* frame.
C14_DeviceSelection ==
    tool = "policy" =>
      /\ argc = 1 =>
           /\ opens \in {<<>>, <<0>>, <<0, 1>>}
           /\ opens = <<>> => (camIdx = NoIndex /\ cpc \in {"start", "open", "killed"})
           /\ opens = <<0>> => (0 \in cams /\ camIdx = 0)
           /\ opens = <<0, 1>> =>
                (0 \notin cams /\ camIdx = (IF 1 \in cams THEN 1 ELSE NoIndex))
      /\ (argc = 2 /\ argv1 \in {"0", "1"}) =>
           LET idx == IF argv1 = "0" THEN 0 ELSE 1 IN
           /\ opens \in {<<>>, <<idx>>}
           /\ opens = <<>> => (camIdx = NoIndex /\ cpc \in {"start", "open", "killed"})
           /\ opens = <<idx>> => camIdx = (IF idx \in cams THEN idx ELSE NoIndex)
      /\ (argc = 2 /\ argv1 = "--list" /\ cpc \notin {"start", "killed"}) =>
           /\ cpc = "done" /\ exitCode = 0
           /\ opens = <<0, 1>>
           /\ listed = SelectSeq(<<0, 1>>, LAMBDA i : i \in cams)
           /\ camIdx = NoIndex
           /\ reads = 0 /\ detected = 0 /\ shows = 0 /\ rawEntries = 0

\* without an argument, index 0 failed and the loop runs on index 1
C14_Witness ==
    /\ tool = "policy" /\ argc = 1 /\ cams = {1}
    /\ opens = <<0, 1>> /\ camIdx = 1
    /\ cpc = "show"

\* C15: a frame read that fails in the middle of the loop ends the loop at
\* once: the failed read is the last one (no retry), every frame that was
\* detected and shown was read before it, the terminal attributes are put
\* back and main returns 0.
C15_ReadFailureEndsLoop ==
    exitCause = "readfail" =>
        /\ cpc \in {"cleanup", "done"}
        /\ reads = detected + 1
        /\ shows = detected
        /\ cpc = "done" =>
             /\ exitCode = 0
             /\ ~term_raw_enabled
             /\ term.icanon = term0.icanon /\ term.echo = term0.echo

\* one frame was processed, the second read failed and the tool returned
C15_Witness ==
    /\ exitCause = "readfail" /\ cpc = "done"
    /\ reads = 2 /\ detected = 1 /\ shows = 1
    /\ term0.icanon /\ term0.echo /\ rawEntries = 1

\* what a signal delivered during the loop does: it sets the flag and nothing
\* else, the stage in progress goes on to the exit check, and the first exit
\* check with the flag set leaves the loop
SignalIsCooperative ==
    /\ [][g_signal_exit' # g_signal_exit =>
            /\ g_signal_exit' = 1
            /\ UNCHANGED <<cpc, envVars, termVars, openVars, keyVars, tuneVars,
                           countVars, detVars, handlers, exitCause, exitCode>>]_vars
    /\ [][(g_signal_exit = 1 /\ cpc \in {"detect", "show"})
            => cpc' \in {"detect", "show", "check"}]_vars
    /\ [][(g_signal_exit = 1 /\ cpc = "check" /\ cpc' # "check")
            => (cpc' = "cleanup" /\ exitReq')]_vars
    /\ []((g_signal_exit = 1 /\ cpc = "read") => sigDetects = 0)

\* C18 (as stated): a signal during the loop only sets the flag, the
\* iteration in progress runs to its exit check, the loop exits at the first
\* exit check after the signal, and at most one detection call is started
\* after the signal was recorded.
C18_AtMostOneDetectCall ==
    SignalIsCooperative /\ [](sigDetects <= 1)

\* C18 (amended): as above, but the detection calls started after the signal
\* are those of one frame's detection pass: at most one in the basic and
\* policy tools, at most one per dictionary in the toggle and tunable tools.
C18_AtMostOneDetectPass ==
    /\ SignalIsCooperative
    /\ [](sigDetects <= (IF tool \in {"basic", "policy"} THEN 1 ELSE NumDicts))

\* the toggle tool scanned all dictionaries after the signal and then left
C18_Witness ==
    /\ tool = "toggle" /\ g_signal_exit = 1
    /\ sigDetects = NumDicts
    /\ cpc = "done" /\ exitCause = "signal"

\* C19: in the policy tool, when a frame has been classified, every detection
\* is in exactly one of the correct and wrong lists (correct iff its id is 3
\* or 7), the id, corner and label lists of each set have the same length,
\* the status line's count is the size of the correct set; and before a
\* frame's detection all the lists are empty.
C19_PolicyPartition ==
    tool = "policy" =>
      /\ cpc \in {"show", "check"} =>
           /\ \A k \in 1..Len(detIds) :
                IF detIds[k] \in {3, 7}
                  THEN /\ Cardinality({i \in 1..Len(correctCorners) :
                                         correctCorners[i] = k}) = 1
                       /\ \A i \in 1..Len(correctCorners) :
                            correctCorners[i] = k => correctIds[i] = detIds[k]
                       /\ \A i \in 1..Len(wrongCorners) : wrongCorners[i] # k
                  ELSE /\ Cardinality({i \in 1..Len(wrongCorners) :
                                         wrongCorners[i] = k}) = 1
                       /\ \A i \in 1..Len(wrongCorners) :
                            wrongCorners[i] = k => wrongIds[i] = detIds[k]
                       /\ \A i \in 1..Len(correctCorners) : correctCorners[i] # k
           /\ Len(correctIds) + Len(wrongIds) = Len(detIds)
           /\ Len(correctIds) = Len(correctCorners)
           /\ Len(correctIds) = Len(correctLabels)
           /\ Len(wrongIds) = Len(wrongCorners)
           /\ Len(wrongIds) = Len(wrongLabels)
           /\ detCount = Len(correctIds)
      /\ cpc \in {"read", "detect"} =>
           /\ correctIds = <<>> /\ correctCorners = <<>> /\ correctLabels = <<>>
           /\ wrongIds = <<>> /\ wrongCorners = <<>> /\ wrongLabels = <<>>

\* the second frame of a run held markers 12 and 7, after a first frame that
\* held marker 3
C19_Witness ==
    /\ tool = "policy" /\ cpc = "show" /\ reads = 2
    /\ detIds = <<12, 7>>
    /\ correctIds = <<7>> /\ correctLabels = <<"Lucky Number Seven">>
    /\ wrongIds = <<12>> /\ wrongLabels = <<"Wrong_ID_12">>
    /\ detCount = 1

\* the State fields of the generator
StateFields == <<dictIdx, markerId, markerSize, borderBits, defaultOut, showHelp>>

\* the path the save hotkey writes to, as the generator computes it
SavePath ==
    IF defaultOut = "" THEN autoFileName(dictIdx, markerId, markerSize, borderBits)
    ELSE defaultOut

\* C16: a save whose write fails (imwrite returns false or throws) shows no
\* error to the user, does not end the program and leaves every State field
\* unchanged; the loop goes on to read the next key.  The only text the step
\* can put on the canvas is the "Saved: <path>" message.
C16_FailedSaveIsSilent ==
    /\ [][(KeyStep /\ Hotkey(key') = "save" /\ saveOutcome' \in {"false", "throw"})
            => /\ UNCHANGED StateFields
               /\ UNCHANGED <<written, needRedraw>>
               /\ gpc' = "top"
               /\ banner' \in {banner, "Saved: " \o SavePath}]_vars
    /\ [][(gpc = "top" /\ Hotkey(key) = "save" /\ presses > 0) => gpc' = "key"]_vars

\* a failed save has been handled and the loop waits for the next key
C16_Witness ==
    /\ Hotkey(key) = "save" /\ presses > 0
    /\ saveOutcome = "throw"
    /\ gpc = "key"
    /\ written.path = ""

\* C17: a successful save writes to the configured path when one is set, and
\* otherwise to marker_<dictionary-name>_id<id>_<size>px_bb<border>.png built
\* from the values the State holds at the moment of the save.
C17_SaveNameFromState ==
    [][(KeyStep /\ Hotkey(key') = "save" /\ saveOutcome' = "ok")
         => written'.path =
              IF defaultOut # "" THEN defaultOut
              ELSE "marker_" \o dictName(dictIdx) \o "_id" \o FormatD(markerId)
                   \o "_" \o FormatD(markerSize) \o "px_bb" \o FormatD(borderBits)
                   \o ".png"]_vars

\* the hotkeys that update a State field
UpdatingHotkeys ==
    {"help", "prevDict", "nextDict", "prevId", "nextId", "sizeUp", "sizeDown",
     "borderDown", "borderUp", "random"}

\* C20: every hotkey that updates a State field sets the redraw flag, so that
\* whenever the loop waits for a key the window shows the marker and the help
\* lines rendered from the current State; a key that matches no hotkey changes
\* no field, requests no redraw and the loop top that follows renders nothing.
C20_RedrawAfterUpdate ==
    /\ [](gpc = "key" =>
            /\ ~needRedraw
            /\ shown = renderMarker(dictIdx, markerId, markerSize, borderBits)
            /\ shownHelp = showHelp)
    /\ [][(KeyStep /\ Hotkey(key') \in UpdatingHotkeys)
            => needRedraw' /\ gpc' = "top"]_vars
    /\ [][(KeyStep /\ Hotkey(key') = "other")
            => UNCHANGED StateFields /\ ~needRedraw' /\ gpc' = "top"]_vars
    /\ [][(gpc = "top" /\ presses > 0 /\ Hotkey(key) = "other")
            => renders' = renders /\ shown' = shown]_vars

\* the border was raised by ']' and the window shows the new border
C20_Witness ==
    /\ gpc = "key"
    /\ Hotkey(key) = "borderUp" /\ presses > 0
    /\ borderBits = 2
    /\ shown.bb = 2
    /\ renders = 2

\* C22: a SIGINT, SIGTERM or SIGHUP delivered after terminal raw mode has
\* been enabled is caught by handleSignal, so the process is never ended by
\* the signal's default action while the terminal is in raw mode.
C22_NoKillInRawMode ==
    cpc = "killed" => (~term_raw_enabled /\ rawEntries = 0)

\* C24: in the generator, the id, size and border width in the automatic
\* file name of a successful save are those with which the saved image was
\* rendered.
C24_FileNameMatchesImage ==
    [][(KeyStep /\ Hotkey(key') = "save" /\ saveOutcome' = "ok" /\ defaultOut = "")
         => written'.path =
              "marker_" \o written'.img.dict \o "_id" \o FormatD(written'.img.id)
              \o "_" \o FormatD(written'.img.ms) \o "px_bb"
              \o FormatD(written'.img.bb) \o ".png"]_vars

\* C23: enableRawTerminal followed by disableRawTerminal is a round trip: the
\* disableRawTerminal that ends raw mode leaves the terminal attributes and
\* the stdin file-status flags (O_NONBLOCK included) exactly as they were
\* before raw mode was entered; an enableRawTerminal while raw mode is on
\* does not overwrite the saved settings, and a disableRawTerminal while raw
\* mode is off changes nothing.
C23_RawRoundTrip ==
    /\ [][(term_raw_enabled /\ rawCalls' = Append(rawCalls, "disable"))
            => (term' = term0 /\ ~term_raw_enabled')]_vars
    /\ [][(term_raw_enabled /\ rawCalls' = Append(rawCalls, "enable"))
            => UNCHANGED <<orig_termios, term, term_raw_enabled>>]_vars
    /\ [][(~term_raw_enabled /\ rawCalls' = Append(rawCalls, "disable"))
            => UNCHANGED <<orig_termios, term, term_raw_enabled>>]_vars
    /\ [](~term_raw_enabled => term = term0)


\* a step of a capture tool that shows the frame and handles one window key
WindowKeyStep == shows' = shows + 1
\* the low byte of the window key just read, -1 when waitKey returned no key
KeyByte == IF wkey' >= 0 THEN Low8(wkey') ELSE -1
\* the downscale factor (in percent) that follows d in 1.0 -> 0.75 -> 0.5 -> 0.33 -> 1.0
ScaleAfter(d) == CASE d = 100 -> 75 [] d = 75 -> 50 [] d = 50 -> 33 [] d = 33 -> 100
\* what every window key of the tunable tool leaves alone, and what 'a'/'A'
\* and 'z'/'Z' do
TunableKeysButStride ==
    /\ useAllDicts' = (IF KeyByte \in {97, 65} THEN ~useAllDicts ELSE useAllDicts)
    /\ detectScale' = (IF KeyByte \in {122, 90} THEN ScaleAfter(detectScale)
                       ELSE detectScale)
    /\ UNCHANGED <<onlyDetect6x6_50, frameIndex, cacheVars, termVars, openVars,
                   detVars, reads, detected, exitCause, exitCode>>
TunableRanges == detectScale \in {100, 75, 50, 33} /\ detectEveryN \in {1, 2, 3, 4}

\* C21 (as stated): in the tunable tool 'a'/'A' toggles all dictionaries
\* against the fast subset, 'z'/'Z' advances the downscale factor cyclically,
\* a stride hotkey advances the stride cyclically over 1..4, each hotkey
\* changes only its own parameter, and the factor and the stride stay in range
C21_StrideKeysCycle ==
    /\ [][WindowKeyStep =>
            /\ TunableKeysButStride
            /\ detectEveryN' = (IF KeyByte \in 49..52 THEN (detectEveryN % 4) + 1
                                ELSE detectEveryN)]_vars
    /\ []TunableRanges

\* C21 (amended): in the tunable tool 'a'/'A' toggles all dictionaries against
\* the fast subset, 'z'/'Z' advances the downscale factor cyclically through
\* 1.0 -> 0.75 -> 0.5 -> 0.33 -> 1.0, each of the keys '1'..'4' sets the stride
\* to its own digit whatever the stride was, each hotkey changes only its own
\* parameter, and after any key sequence the factor is one of the four values
\* and the stride is in {1, 2, 3, 4}
C21_HotkeysSetParameters ==
    /\ [][WindowKeyStep =>
            /\ TunableKeysButStride
            /\ detectEveryN' = (IF KeyByte \in 49..52 THEN KeyByte - 48
                                ELSE detectEveryN)]_vars
    /\ []TunableRanges

\* the fourth key of a, 3, z, z was handled: the factor wrapped from 0.33 to
\* 1.0 while the stride and the dictionary choice made before are still there
C21_Witness ==
    /\ tool = "tunable" /\ cpc = "check" /\ wkey = 122
    /\ detectScale = 100 /\ detectEveryN = 3 /\ useAllDicts

\* C25: in the tunable tool the first frame runs detection; a frame runs
\* detection exactly when its index is a multiple of the stride; a frame where
\* detection is skipped draws exactly the ids, corners and labels that the
\* most recent frame that ran detection stored; the stride is never 0
C25_CacheWrittenBeforeShown ==
    /\ detectEveryN # 0
    /\ (tool = "tunable" /\ cpc \in {"show", "check"}) =>
         /\ reads = 1 => doDetect
         /\ cpc = "show" => (doDetect <=> (reads - 1) % detectEveryN = 0)
         /\ doDetect => lastRun.frame = reads
         /\ ~doDetect => lastRun.frame \in 1..(reads - 1)
         /\ allIds = lastRun.ids
         /\ allCorners = lastRun.corners
         /\ labels = lastRun.labels

\* stride 2: frame 1 detects, frame 2 is skipped, frame 3 detects a marker and
\* overwrites the cache, frame 4 is skipped and draws what frame 3 stored
C25_Witness ==
    /\ tool = "tunable" /\ cpc = "show" /\ ~doDetect
    /\ reads = 4 /\ lastRun.frame = 3
    /\ Len(labels) = 1 /\ allCorners[1][1] = 3

====
